---- MODULE Spec2Model ----
(***************************************************************************)
(* PoliMarket backend: the real-time chat subsystem of src/main.py.        *)
(*                                                                         *)
(* The model follows the WebSocket endpoint chat_ws, its identity check    *)
(* get_current_user_ws and the process-wide ConnectionManager.  Handlers   *)
(* run on one asyncio event loop: a handler runs without interruption      *)
(* between two awaits, so every action below is the code between two       *)
(* suspension points (ws.receive_json, ws.send_json).                      *)
(*                                                                         *)
(* The REST endpoints that write the same store (start_chat,               *)
(* confirm_payment, create_order, update_order_status, delete_product) are *)
(* plain functions run on pool threads, each with its own session; they    *)
(* are specified separately (SpecRest, SpecStore) so that Spec stays the   *)
(* chat subsystem alone.                                                   *)
(***************************************************************************)
EXTENDS Integers, Sequences, FiniteSets, TLC

\* ---------------------------------------------------------------- bounds
NumConns == 3
MaxClock == 2
MaxDrops == 1
NumWorkers == 2
MaxOrders == 1
MaxChats == 4
MaxMessages == 3

\* ------------------------------------------------------------- constants
PolicyViolation == 1008

Conns == 1..NumConns

\* rows of the user table that exist when the server runs (models.User)
UserTable ==
    (1 :> [name |-> "ana"]) @@ (2 :> [name |-> "luis"]) @@ (3 :> [name |-> "eva"])

\* rows of the chat table (models.Chat): chat 1 is buyer 1 / seller 2,
\* chat 2 is buyer 3 / seller 2; there is no chat 3
ChatTable ==
    (1 :> [product_id |-> 1, buyer_id |-> 1, seller_id |-> 2,
           payment_confirmed |-> FALSE]) @@
    (2 :> [product_id |-> 2, buyer_id |-> 3, seller_id |-> 2,
           payment_confirmed |-> FALSE])

\* rows of the product table (models.Product): both products are sold by user 2
ProductTable ==
    (1 :> [seller_id |-> 2]) @@ (2 :> [seller_id |-> 2])

Users == DOMAIN UserTable

\* threads of the pool that runs the synchronous REST endpoints
Workers == 1..NumWorkers

\* body.status of an order update
Statuses == {"accepted", "completed"}

ChatIds == 1..3

\* bearer tokens a client can present in the query string
Tokens ==
    {[kind |-> "valid", sub |-> u] : u \in 1..4} \cup
    {[kind |-> k, sub |-> 1] : k \in {"malformed", "expired", "badsig", "nosub"}}

Texts == {"hi"}

\* inbound units: a JSON object with a text field, or one without it
Units == {[text |-> t] : t \in Texts} \cup {[body |-> "hi"]}

VARIABLES
    chats,      \* Chat table of the store: id -> row
    messages,   \* Message table of the store, in commit order
    clock,      \* datetime.utcnow, as a tick counter
    rooms,      \* manager.rooms: chat id -> set of connections
    pc,         \* where each connection's chat_ws coroutine stands
    wsState,    \* transport of each connection: "open", "dropped" (the client went
                \* away), "closed" (ws.close), "aborted" (torn down by the server
                \* after chat_ws raised)
    connUser,   \* user.id resolved by the handler (0: none)
    connChat,   \* chat_id path parameter of the handler (0: none)
    closeCode,  \* code given to ws.close by the handler (0: never called)
    exc,        \* exception that left chat_ws ("none": no exception)
    session,    \* the handler's store session: "none", "open", "closed"
    snapshot,   \* broadcast: members of list(...) still to be sent to
    payload,    \* broadcast: the frame being sent, tagged with its message id
    inbox,      \* frames each connection's client has been sent, in order
    lastUnit,   \* history: outcome of the handler's latest inbound unit
    recvLog,    \* history: message ids stored for the units of a connection, in receipt order
    products,   \* ids of the rows of the Product table
    orders,     \* Order table of the store, in insertion order (id = position)
    req,        \* the REST request each pool thread is in the middle of
    bc          \* history: the handler's latest broadcast (message id, the room's
                \* live set when it started, members whose send raised)

vars == <<chats, messages, clock, rooms, pc, wsState, connUser, connChat,
          closeCode, exc, session, snapshot, payload, inbox,
          lastUnit, recvLog, bc, products, orders, req>>

storeVars == <<chats, messages, clock>>
restVars == <<products, orders, req>>
wsVars == <<rooms, pc, wsState, connUser, connChat, closeCode, exc, session,
            snapshot, payload, inbox, lastUnit, recvLog, bc>>
histVars == <<lastUnit, recvLog, bc>>

NoBroadcast == [mid |-> 0, snap |-> {}, failed |-> {}]
Idle == [op |-> "idle", user |-> 0, id |-> 0, status |-> "", seen |-> 0, dirty |-> {}]
NoPayload == [mid |-> 0, frame |-> [author_id |-> 0, text |-> "", created_at |-> <<>>]]

\* ------------------------------------------------------ pure definitions

\* jwt.decode(token, SECRET, algorithms=[ALGO]) followed by int(data.get("sub"))
JwtSub(token) ==
    IF token.kind = "valid" THEN token.sub ELSE 0

\* get_current_user_ws: the user id, or 0 when it raises WebSocketDisconnect(1008)
GetCurrentUserWs(token) ==
    IF JwtSub(token) = 0 THEN 0
    ELSE IF JwtSub(token) \notin DOMAIN UserTable THEN 0
    ELSE JwtSub(token)

ChatAuthorizedAnyUser(ch, chat_id, uid) ==
    chat_id \in DOMAIN ch

\* the guard of chat_ws: the chat exists and the user is its buyer or seller
ChatAuthorized(ch, chat_id, uid) ==
    /\ chat_id \in DOMAIN ch
    /\ (uid = ch[chat_id].buyer_id \/ uid = ch[chat_id].seller_id)

\* self.rooms.get(chat_id, set())
Live(r, chat_id) ==
    IF chat_id \in DOMAIN r THEN r[chat_id] ELSE {}

\* self.rooms.setdefault(chat_id, set()).add(ws)
Join(r, chat_id, ws) ==
    [k \in DOMAIN r \cup {chat_id} |->
        IF k = chat_id THEN Live(r, chat_id) \cup {ws} ELSE r[k]]

DisconnectDropRoom(r, chat_id, ws) ==
    [k \in DOMAIN r \ {chat_id} |-> r[k]]

\* ConnectionManager.disconnect: self.rooms.get(chat_id, set()).discard(ws)
Disconnect(r, chat_id, ws) ==
    [k \in DOMAIN r |-> IF k = chat_id THEN r[k] \ {ws} ELSE r[k]]

SnapshotEveryRoom(r, chat_id) ==
    UNION {r[k] : k \in DOMAIN r}

\* broadcast: list(self.rooms.get(chat_id, set())), taken before the first send
Snapshot(r, chat_id) ==
    Live(r, chat_id)

OnSendFailureIgnore(r, chat_id, ws) ==
    r

\* broadcast: the except branch of a send
OnSendFailure(r, chat_id, ws) ==
    Disconnect(r, chat_id, ws)

\* str(msg.created_at): the date-time text of a tick
Str(t) ==
    <<"T", t>>

\* Message(chat_id=chat_id, author_id=user.id, text=data["text"]) once stored:
\* id from the table's autoincrement, created_at from the default factory
NewMessage(msgs, chat_id, uid, text, now) ==
    [id |-> Len(msgs) + 1, chat_id |-> chat_id, author_id |-> uid,
     text |-> text, created_at |-> now]

CommitLost(msgs, m) ==
    msgs

\* session.add(msg); session.commit()
Commit(msgs, m) ==
    Append(msgs, m)

\* the dict handed to manager.broadcast
Frame(m) ==
    [author_id |-> m.author_id, text |-> m.text, created_at |-> Str(m.created_at)]

SendJsonFront(q, p) ==
    <<p>> \o q

\* ws.send_json(message) on an open transport: the client gets the frame next
SendJson(q, p) ==
    Append(q, p)

\* ------------------------------------------------------------------ Init
Init ==
    /\ chats = ChatTable
    /\ messages = <<>>
    /\ clock = 1
    /\ rooms = <<>>
    /\ pc = [c \in Conns |-> "connecting"]
    /\ wsState = [c \in Conns |-> "open"]
    /\ connUser = [c \in Conns |-> 0]
    /\ connChat = [c \in Conns |-> 0]
    /\ closeCode = [c \in Conns |-> 0]
    /\ exc = [c \in Conns |-> "none"]
    /\ session = [c \in Conns |-> "none"]
    /\ snapshot = [c \in Conns |-> {}]
    /\ payload = [c \in Conns |-> NoPayload]
    /\ inbox = [c \in Conns |-> <<>>]
    /\ lastUnit = [c \in Conns |-> "none"]
    /\ recvLog = [c \in Conns |-> <<>>]
    /\ bc = [c \in Conns |-> NoBroadcast]
    /\ products = DOMAIN ProductTable
    /\ orders = <<>>
    /\ req = [w \in Workers |-> Idle]

\* --------------------------------------------------------------- actions

\* chat_ws from its first line to its first wait for an inbound unit: the
\* session is opened, the token is resolved and the chat is looked up.  A
\* token failure leaves chat_ws with WebSocketDisconnect(1008) through the
\* finally clause; a missing chat or a stranger gets ws.close(code=1008) and
\* a return; otherwise manager.connect accepts the connection and adds it to
\* the room's set, and the handler waits in ws.receive_json.  Connections
\* are interchangeable, so they are opened in the order of their numbers.
Admit(c, token, chat_id) ==
    /\ pc[c] = "connecting"
    /\ \A d \in Conns : d < c => pc[d] # "connecting"
    /\ LET uid == GetCurrentUserWs(token) IN
        IF uid = 0 THEN
            /\ pc' = [pc EXCEPT ![c] = "raised"]
            /\ exc' = [exc EXCEPT ![c] = "WebSocketDisconnect"]
            /\ wsState' = [wsState EXCEPT ![c] = "aborted"]
            /\ session' = [session EXCEPT ![c] = "closed"]
            /\ UNCHANGED <<connUser, connChat, closeCode, rooms>>
        ELSE IF ~ChatAuthorized(chats, chat_id, uid) THEN
            /\ pc' = [pc EXCEPT ![c] = "returned"]
            /\ closeCode' = [closeCode EXCEPT ![c] = PolicyViolation]
            /\ wsState' = [wsState EXCEPT ![c] = "closed"]
            /\ session' = [session EXCEPT ![c] = "closed"]
            /\ UNCHANGED <<connUser, connChat, exc, rooms>>
        ELSE
            /\ pc' = [pc EXCEPT ![c] = "receiving"]
            /\ connUser' = [connUser EXCEPT ![c] = uid]
            /\ connChat' = [connChat EXCEPT ![c] = chat_id]
            /\ session' = [session EXCEPT ![c] = "open"]
            /\ rooms' = Join(rooms, chat_id, c)
            /\ UNCHANGED <<closeCode, exc, wsState>>
    /\ UNCHANGED <<storeVars, snapshot, payload, inbox, histVars>>
    /\ UNCHANGED restVars

\* the client goes away (close frame or broken transport); at most MaxDrops
\* clients do
ClientDisconnect(c) ==
    /\ pc[c] \in {"receiving", "broadcasting"}
    /\ wsState[c] = "open"
    /\ Cardinality({d \in Conns : wsState[d] = "dropped"}) < MaxDrops
    /\ wsState' = [wsState EXCEPT ![c] = "dropped"]
    /\ UNCHANGED <<storeVars, rooms, pc, connUser, connChat, closeCode, exc,
                   session, snapshot, payload, inbox, histVars>>
    /\ UNCHANGED restVars

ReceiveJsonSkipMalformed(c, data, commitOk) ==
    /\ pc[c] = "receiving"
    /\ wsState[c] = "open"
    /\ "text" \notin DOMAIN data
    /\ lastUnit' = [lastUnit EXCEPT ![c] = "malformed"]
    /\ recvLog' = [recvLog EXCEPT ![c] = Append(@, 0)]
    /\ UNCHANGED <<storeVars, rooms, pc, wsState, connUser, connChat, closeCode,
                   exc, session, snapshot, payload, inbox, bc>>
    /\ UNCHANGED restVars

\* one turn of the receive loop on an inbound unit, up to the next suspension.
\* data["text"] on a unit without the field raises KeyError; a commit the
\* store refuses raises out of session.commit.  Neither is a
\* WebSocketDisconnect, so both leave chat_ws through the finally clause only
\* and the server tears the transport down.  Otherwise the row is stored and
\* manager.broadcast takes its snapshot and waits in its first send (an empty
\* snapshot returns to ws.receive_json at once).
ReceiveJson(c, data, commitOk) ==
    /\ pc[c] = "receiving"
    /\ wsState[c] = "open"
    /\ IF "text" \notin DOMAIN data THEN
            /\ pc' = [pc EXCEPT ![c] = "raised"]
            /\ exc' = [exc EXCEPT ![c] = "KeyError"]
            /\ wsState' = [wsState EXCEPT ![c] = "aborted"]
            /\ session' = [session EXCEPT ![c] = "closed"]
            /\ lastUnit' = [lastUnit EXCEPT ![c] = "malformed"]
            /\ recvLog' = [recvLog EXCEPT ![c] = Append(@, 0)]
            /\ UNCHANGED <<messages, clock, snapshot, payload, bc>>
       ELSE
            /\ clock < MaxClock + 1
            /\ clock' = clock + 1
            /\ IF ~commitOk THEN
                    /\ pc' = [pc EXCEPT ![c] = "raised"]
                    /\ exc' = [exc EXCEPT ![c] = "SQLAlchemyError"]
                    /\ wsState' = [wsState EXCEPT ![c] = "aborted"]
                    /\ session' = [session EXCEPT ![c] = "closed"]
                    /\ lastUnit' = [lastUnit EXCEPT ![c] = "commit_failed"]
                    /\ recvLog' = [recvLog EXCEPT ![c] = Append(@, 0)]
                    /\ UNCHANGED <<messages, snapshot, payload, bc>>
               ELSE
                    LET msg == NewMessage(messages, connChat[c], connUser[c],
                                          data.text, clock)
                        snap == Snapshot(rooms, connChat[c])
                    IN  /\ messages' = Commit(messages, msg)
                        /\ payload' = [payload EXCEPT ![c] =
                                          [mid |-> msg.id, frame |-> Frame(msg)]]
                        /\ snapshot' = [snapshot EXCEPT ![c] = snap]
                        /\ pc' = [pc EXCEPT ![c] =
                                     IF snap = {} THEN "receiving" ELSE "broadcasting"]
                        /\ lastUnit' = [lastUnit EXCEPT ![c] = "stored"]
                        /\ recvLog' = [recvLog EXCEPT ![c] = Append(@, msg.id)]
                        /\ bc' = [bc EXCEPT ![c] =
                                     [mid |-> msg.id, failed |-> {},
                                      snap |-> Live(rooms, connChat[c])]]
                        /\ UNCHANGED <<exc, wsState, session>>
    /\ UNCHANGED <<chats, rooms, connUser, connChat, closeCode, inbox>>
    /\ UNCHANGED restVars

ReceiveDisconnectLeak(c) ==
    /\ pc[c] = "receiving"
    /\ wsState[c] = "dropped"
    /\ rooms' = Disconnect(rooms, connChat[c], c)
    /\ pc' = [pc EXCEPT ![c] = "returned"]
    /\ UNCHANGED <<storeVars, wsState, connUser, connChat, closeCode, exc, session,
                   snapshot, payload, inbox, lastUnit, recvLog, bc>>
    /\ UNCHANGED restVars

\* ws.receive_json raises WebSocketDisconnect for a client that went away:
\* the except clause leaves the room, the finally clause closes the session
ReceiveDisconnect(c) ==
    /\ pc[c] = "receiving"
    /\ wsState[c] = "dropped"
    /\ rooms' = Disconnect(rooms, connChat[c], c)
    /\ pc' = [pc EXCEPT ![c] = "returned"]
    /\ session' = [session EXCEPT ![c] = "closed"]
    /\ UNCHANGED <<storeVars, wsState, connUser, connChat, closeCode, exc,
                   snapshot, payload, inbox, lastUnit, recvLog, bc>>
    /\ UNCHANGED restVars

BroadcastSendLive(c, ws) ==
    /\ pc[c] = "broadcasting"
    /\ ws \in Live(rooms, connChat[c])
    /\ wsState[ws] = "open"
    /\ \A i \in 1..Len(inbox[ws]) : inbox[ws][i].mid # payload[c].mid
    /\ inbox' = [inbox EXCEPT ![ws] = SendJson(@, payload[c])]
    /\ snapshot' = [snapshot EXCEPT ![c] = @ \ {ws}]
    /\ pc' = [pc EXCEPT ![c] =
                 IF snapshot[c] \subseteq {ws} THEN "receiving" ELSE "broadcasting"]
    /\ UNCHANGED <<storeVars, rooms, bc, wsState, connUser, connChat, closeCode,
                   exc, session, payload, lastUnit, recvLog>>
    /\ UNCHANGED restVars

\* one iteration of the for loop of manager.broadcast, run by the handler of
\* c for the member ws of its snapshot: the frame is sent, or the send raises
\* (the transport of ws is no longer open) and ws leaves the room, whatever
\* the exception.  The order of list(set) is not fixed, so any
\* remaining member may be next.  After the last member the handler is back
\* in ws.receive_json.
BroadcastSend(c, ws) ==
    /\ pc[c] = "broadcasting"
    /\ ws \in snapshot[c]
    /\ IF wsState[ws] = "open" THEN
            /\ inbox' = [inbox EXCEPT ![ws] = SendJson(@, payload[c])]
            /\ UNCHANGED <<rooms, bc>>
       ELSE
            /\ rooms' = OnSendFailure(rooms, connChat[c], ws)
            /\ bc' = [bc EXCEPT ![c].failed = @ \cup {ws}]
            /\ UNCHANGED inbox
    /\ snapshot' = [snapshot EXCEPT ![c] = @ \ {ws}]
    /\ pc' = [pc EXCEPT ![c] =
                 IF snapshot[c] = {ws} THEN "receiving" ELSE "broadcasting"]
    /\ UNCHANGED <<storeVars, wsState, connUser, connChat, closeCode, exc,
                   session, payload, lastUnit, recvLog>>
    /\ UNCHANGED restVars

Next ==
    \/ \E c \in Conns, token \in Tokens, chat_id \in ChatIds : Admit(c, token, chat_id)
    \/ \E c \in Conns : ClientDisconnect(c)
    \/ \E c \in Conns, data \in Units, commitOk \in BOOLEAN : ReceiveJson(c, data, commitOk)
    \/ \E c \in Conns : ReceiveDisconnect(c)
    \/ \E c \in Conns, ws \in Conns : BroadcastSend(c, ws)

Spec == Init /\ [][Next]_vars

\* ------------------------------------------------- a send that never completes

\* await ws.send_json(message) in broadcast on a transport whose client has
\* stopped reading: the await does not return, so the coroutine of c stays
\* suspended inside the for loop (pc "blocked") with the rest of its
\* snapshot unserved.  Nothing in the code bounds the wait.
BroadcastStall(c, ws) ==
    /\ pc[c] = "broadcasting"
    /\ ws \in snapshot[c]
    /\ \/ wsState[ws] = "stalled"
       \/ /\ wsState[ws] = "open"
          /\ \A d \in Conns : wsState[d] \notin {"dropped", "stalled"}
    /\ wsState' = [wsState EXCEPT ![ws] = "stalled"]
    /\ pc' = [pc EXCEPT ![c] = "blocked"]
    /\ UNCHANGED <<storeVars, rooms, connUser, connChat, closeCode, exc, session,
                   snapshot, payload, inbox, histVars>>
    /\ UNCHANGED restVars

\* the handlers of Next, with transports that may stop draining; a send to
\* such a transport neither completes nor raises
NextStall ==
    \/ \E c \in Conns, token \in Tokens, chat_id \in ChatIds : Admit(c, token, chat_id)
    \/ \E c \in Conns : ClientDisconnect(c)
    \/ \E c \in Conns, data \in Units, commitOk \in BOOLEAN : ReceiveJson(c, data, commitOk)
    \/ \E c \in Conns : ReceiveDisconnect(c)
    \/ \E c \in Conns, ws \in Conns : wsState[ws] # "stalled" /\ BroadcastSend(c, ws)
    \/ \E c \in Conns, ws \in Conns : BroadcastStall(c, ws)

SpecStall == Init /\ [][NextStall]_vars

\* ------------------------------------------------------- REST endpoints
\* The REST endpoints are plain functions, so each request runs on a thread
\* of the pool with a session of its own (db.get_session).  A request that
\* reads rows, decides on them and commits later is two steps: another
\* thread may commit in between, and no table has a uniqueness constraint
\* or a row lock.  A request that fails (404, 403, 400) changes nothing.

\* select(Chat).where(product_id == pid, buyer_id == uid): the matching ids
ChatsOf(ch, pid, uid) ==
    {k \in DOMAIN ch : ch[k].product_id = pid /\ ch[k].buyer_id = uid}

\* select(Chat).where(product_id == pid, buyer_id == uid, seller_id == sid)
ChatsWith(ch, pid, uid, sid) ==
    {k \in ChatsOf(ch, pid, uid) : ch[k].seller_id = sid}

\* session.add(Chat(...)); session.commit(): the id is the next of the table
AddChat(ch, row) ==
    ch @@ ((Cardinality(DOMAIN ch) + 1) :> row)

\* session.add(Message(chat_id, author_id, text)); session.commit()
AddMessage(msgs, chat_id, uid, text, now) ==
    Commit(msgs, NewMessage(msgs, chat_id, uid, text, now))

\* a thread able to take a request: the lowest idle one
Free(w) ==
    /\ req[w].op = "idle"
    /\ \A v \in Workers : v < w => req[v].op # "idle"

\* start_chat up to the select: the product is loaded, a seller may not chat
\* with themselves, and an existing chat of the buyer for the product is
\* returned as it is
StartChatRead(w, user, product_id) ==
    /\ Free(w)
    /\ IF product_id \notin products THEN UNCHANGED req
       ELSE IF ProductTable[product_id].seller_id = user THEN UNCHANGED req
       ELSE IF ChatsOf(chats, product_id, user) # {} THEN UNCHANGED req
       ELSE req' = [req EXCEPT ![w] =
                       [op |-> "start_chat", user |-> user, id |-> product_id,
                        status |-> "", seen |-> ProductTable[product_id].seller_id,
                        dirty |-> {}]]
    /\ UNCHANGED <<storeVars, wsVars, products, orders>>

\* start_chat after a select that found nothing: the chat is inserted
StartChatInsert(w) ==
    /\ req[w].op = "start_chat"
    /\ Cardinality(DOMAIN chats) < MaxChats
    /\ chats' = AddChat(chats, [product_id |-> req[w].id, buyer_id |-> req[w].user,
                                seller_id |-> req[w].seen,
                                payment_confirmed |-> FALSE])
    /\ req' = [req EXCEPT ![w] = Idle]
    /\ UNCHANGED <<messages, clock, wsVars, products, orders>>

\* confirm_payment: one commit
ConfirmPayment(user, chat_id) ==
    /\ IF chat_id \notin DOMAIN chats THEN UNCHANGED <<chats, messages>>
       ELSE IF user # chats[chat_id].seller_id THEN UNCHANGED <<chats, messages>>
       ELSE /\ Len(messages) < MaxMessages
            /\ chats' = [chats EXCEPT ![chat_id].payment_confirmed = TRUE]
            /\ messages' = AddMessage(messages, chat_id, user, "PAGO CONFIRMADO", clock)
    /\ UNCHANGED <<clock, wsVars, restVars>>

\* create_order: the order is stored, then the buyer's chat for the product,
\* if there is one, gets the delivery request (.first() of a select without
\* ordering: any of the matching chats)
CreateOrder(user, product_id) ==
    /\ IF product_id \notin products THEN UNCHANGED <<orders, messages>>
       ELSE /\ Len(orders) < MaxOrders
            /\ orders' = Append(orders,
                   [buyer_id |-> user, seller_id |-> ProductTable[product_id].seller_id,
                    product_id |-> product_id, status |-> "pending",
                    delivery_person_id |-> 0])
            /\ IF ChatsOf(chats, product_id, user) = {} THEN UNCHANGED messages
               ELSE /\ Len(messages) < MaxMessages
                    /\ \E k \in ChatsOf(chats, product_id, user) :
                          messages' = AddMessage(messages, k, user,
                                                 "Solicitud de Delivery", clock)
    /\ UNCHANGED <<chats, clock, wsVars, products, req>>

\* update_order_status up to session.commit: the order is loaded, the new
\* status and, for "accepted", the caller as delivery person are set on the
\* loaded object unless the loaded row already names another delivery person
UpdateOrderRead(w, user, order_id, status) ==
    /\ Free(w)
    /\ IF order_id \notin 1..Len(orders) THEN UNCHANGED req
       ELSE LET order == orders[order_id] IN
            IF /\ status = "accepted"
               /\ order.delivery_person_id # 0
               /\ order.delivery_person_id # user
            THEN UNCHANGED req
            ELSE req' = [req EXCEPT ![w] =
                    [op |-> "update_order_status", user |-> user, id |-> order_id,
                     status |-> status, seen |-> order.delivery_person_id,
                     dirty |-> (IF order.status # status THEN {"status"} ELSE {}) \cup
                               (IF status = "accepted" /\ order.delivery_person_id # user
                                THEN {"delivery_person_id"} ELSE {})]]
    /\ UNCHANGED <<storeVars, wsVars, products, orders>>

\* the messages update_order_status adds after its commit, given the chat it
\* uses as delivery chat (0: none) and the chats after a possible insert
StatusMessages(msgs, ch, order, user, status, delivery_chat, now) ==
    IF status = "accepted" THEN
        LET m1 == AddMessage(msgs, delivery_chat, user, "Hola! Soy tu repartidor", now)
            orig == ChatsWith(ch, order.product_id, order.buyer_id, order.seller_id)
        IN  IF orig = {} THEN {m1}
            ELSE {AddMessage(m1, k, user, "ha aceptado el pedido", now) : k \in orig}
    ELSE IF status = "completed" /\ delivery_chat # 0 THEN
        {AddMessage(msgs, delivery_chat, user, "Pedido Entregado", now)}
    ELSE {msgs}

\* update_order_status from session.commit to its end: the changed columns
\* are written, then "accepted" finds or creates the chat between the buyer
\* and the caller and posts to it and to the sale chat, and "completed"
\* posts to the chat between the buyer and the caller if there is one
UpdateOrderCommit(w) ==
    /\ req[w].op = "update_order_status"
    /\ LET r == req[w]
           order == orders[r.id]
           found == ChatsWith(chats, order.product_id, order.buyer_id, r.user)
       IN
        /\ orders' = [orders EXCEPT ![r.id] =
              [@ EXCEPT
                 !.status = IF "status" \in r.dirty THEN r.status ELSE @,
                 !.delivery_person_id =
                     IF "delivery_person_id" \in r.dirty THEN r.user ELSE @]]
        /\ IF r.status = "accepted" /\ found = {} THEN
                /\ Cardinality(DOMAIN chats) < MaxChats
                /\ chats' = AddChat(chats, [product_id |-> order.product_id,
                                            buyer_id |-> order.buyer_id,
                                            seller_id |-> r.user,
                                            payment_confirmed |-> TRUE])
                /\ messages' \in StatusMessages(messages, chats', order, r.user, r.status,
                                                Cardinality(DOMAIN chats) + 1, clock)
           ELSE
                /\ UNCHANGED chats
                /\ \E k \in (IF found = {} THEN {0} ELSE found) :
                      messages' \in StatusMessages(messages, chats, order, r.user,
                                                   r.status, k, clock)
        /\ Len(messages') <= MaxMessages
    /\ req' = [req EXCEPT ![w] = Idle]
    /\ UNCHANGED <<clock, wsVars, products>>

DeleteProductCascade(user, pid, fkEnforced) ==
    /\ pid \in products
    /\ ProductTable[pid].seller_id = user
    /\ products' = products \ {pid}
    /\ messages' = SelectSeq(messages, LAMBDA m : chats[m.chat_id].product_id # pid)
    /\ UNCHANGED <<chats, clock, wsVars, orders, req>>

\* delete_product: only the product row is deleted.  Chat and Order rows
\* hold foreign keys to it without ON DELETE: a database that enforces them
\* (PostgreSQL) refuses the delete while such rows exist, one that does not
\* (SQLite's default) leaves them behind
DeleteProduct(user, pid, fkEnforced) ==
    /\ IF pid \notin products THEN UNCHANGED products
       ELSE IF ProductTable[pid].seller_id # user THEN UNCHANGED products
       ELSE IF /\ fkEnforced
               /\ \/ \E k \in DOMAIN chats : chats[k].product_id = pid
                  \/ \E o \in 1..Len(orders) : orders[o].product_id = pid
            THEN UNCHANGED products
       ELSE products' = products \ {pid}
    /\ UNCHANGED <<storeVars, wsVars, orders, req>>

\* product ids sent in request bodies and paths
ReqProducts == {1}

\* the REST endpoints alone, on all threads of the pool
NextRest ==
    \/ \E w \in Workers, user \in Users, product_id \in ReqProducts :
          StartChatRead(w, user, product_id)
    \/ \E w \in Workers : StartChatInsert(w)
    \/ \E user \in Users, chat_id \in 1..MaxChats : ConfirmPayment(user, chat_id)
    \/ \E user \in Users, product_id \in ReqProducts : CreateOrder(user, product_id)
    \/ \E w \in Workers, user \in Users, order_id \in 1..MaxOrders, status \in Statuses :
          UpdateOrderRead(w, user, order_id, status)
    \/ \E w \in Workers : UpdateOrderCommit(w)
    \/ \E user \in Users, pid \in ReqProducts, fkEnforced \in BOOLEAN :
          DeleteProduct(user, pid, fkEnforced)

SpecRest == Init /\ [][NextRest]_vars

\* every writer of the store together: the receive loop of one WebSocket
\* connection on chat 1 and the REST endpoints, one request at a time
StoreConns == {1}
StoreChats == {1}
StoreWorkers == {1}

NextStore ==
    \/ \E c \in StoreConns, token \in Tokens, chat_id \in StoreChats : Admit(c, token, chat_id)
    \/ \E c \in StoreConns : ClientDisconnect(c)
    \/ \E c \in StoreConns, data \in Units, commitOk \in BOOLEAN : ReceiveJson(c, data, commitOk)
    \/ \E c \in StoreConns : ReceiveDisconnect(c)
    \/ \E c \in StoreConns, ws \in Conns : BroadcastSend(c, ws)
    \/ \E w \in StoreWorkers, user \in Users, product_id \in ReqProducts :
          StartChatRead(w, user, product_id)
    \/ \E w \in StoreWorkers : StartChatInsert(w)
    \/ \E user \in Users, chat_id \in StoreChats : ConfirmPayment(user, chat_id)
    \/ \E user \in Users, product_id \in ReqProducts : CreateOrder(user, product_id)
    \/ \E w \in StoreWorkers, user \in Users, order_id \in 1..MaxOrders, status \in Statuses :
          UpdateOrderRead(w, user, order_id, status)
    \/ \E w \in StoreWorkers : UpdateOrderCommit(w)
    \/ \E user \in Users, pid \in ReqProducts, fkEnforced \in BOOLEAN :
          DeleteProduct(user, pid, fkEnforced)

SpecStore == Init /\ [][NextStore]_vars

\* ---------------------------------------------------------------- claims

Ended(c) == pc[c] \in {"returned", "raised"}
Rejected(c) == Ended(c) /\ connUser[c] = 0
HasFrame(w, mid) == \E i \in 1..Len(inbox[w]) : inbox[w][i].mid = mid
InRegistry(c) == \E r \in DOMAIN rooms : c \in rooms[r]
\* members of the latest broadcast of c whose send has been attempted
Attempted(c) == bc[c].snap \ snapshot[c]
Pos(q, x) == CHOOSE i \in 1..Len(q) : q[i] = x

\* C1: a stored message's frame reaches every other connection that was in
\* the sender's room when the broadcast started and whose send succeeded, and
\* no frame ever reaches a connection of another room.
BroadcastStaysInRoom ==
    /\ \A c \in Conns : bc[c].mid # 0 =>
          \A w \in (Attempted(c) \ bc[c].failed) \ {c} : HasFrame(w, bc[c].mid)
    /\ \A w \in Conns : \A i \in 1..Len(inbox[w]) :
          messages[inbox[w][i].mid].chat_id = connChat[w]

\* a broadcast has finished with a frame delivered to another member of the
\* room while a connection of the other room was live and got nothing
BroadcastStaysInRoomWitness ==
    \E c, w, o \in Conns :
        /\ pc[c] = "receiving" /\ bc[c].mid # 0 /\ w # c
        /\ w \in bc[c].snap /\ HasFrame(w, bc[c].mid)
        /\ connChat[o] # 0 /\ connChat[o] # connChat[c]
        /\ o \in Live(rooms, connChat[o]) /\ inbox[o] = <<>>

\* C2: every member of a room's live set is a connection of that room whose
\* user exists and is the chat's buyer or seller, and a rejected admission
\* leaves the registry as it was.
OnlyParticipantsJoin ==
    [][/\ \A r \in DOMAIN rooms' : \A c \in rooms'[r] :
            /\ connChat'[c] = r
            /\ connUser'[c] \in DOMAIN UserTable
            /\ r \in DOMAIN chats'
            /\ connUser'[c] \in {chats'[r].buyer_id, chats'[r].seller_id}
       /\ \A c \in Conns : (pc[c] = "connecting" /\ Rejected(c)') => rooms' = rooms
      ]_vars

\* each kind of rejection has happened next to a live member of a room
OnlyParticipantsJoinWitness ==
    \E a, b, c \in Conns :
        /\ Rejected(a) /\ exc[a] = "WebSocketDisconnect"
        /\ Rejected(b) /\ closeCode[b] = PolicyViolation
        /\ InRegistry(c)

\* C3: a frame is sent, or is being sent, only for a message already stored
\* with the same author, room and text.
PersistBeforeBroadcast ==
    /\ \A w \in Conns : \A i \in 1..Len(inbox[w]) :
          \E k \in 1..Len(messages) :
              /\ messages[k].author_id = inbox[w][i].frame.author_id
              /\ messages[k].text = inbox[w][i].frame.text
              /\ messages[k].chat_id = connChat[w]
    /\ \A c \in Conns : pc[c] = "broadcasting" =>
          \E k \in 1..Len(messages) :
              /\ messages[k].author_id = payload[c].frame.author_id
              /\ messages[k].text = payload[c].frame.text
              /\ messages[k].chat_id = connChat[c]

\* a frame has been delivered to a connection other than its sender
PersistBeforeBroadcastWitness ==
    \E c, w \in Conns : w # c /\ bc[c].mid # 0 /\ HasFrame(w, bc[c].mid)

\* C4: a send that raises during a broadcast removes that member from the
\* room, the loop still attempts every other member of the snapshot, each
\* member whose send did not raise has the frame, and the sending handler
\* does not leave its receive loop because of it.
SendFailureIsolated ==
    \A c \in Conns : bc[c].failed # {} =>
        /\ \A w \in bc[c].failed : w \notin Live(rooms, connChat[c])
        /\ \A w \in Attempted(c) \ bc[c].failed : HasFrame(w, bc[c].mid)
        /\ pc[c] # "broadcasting" => snapshot[c] = {}
        /\ lastUnit[c] = "stored" => pc[c] # "raised"

\* three connections were in the room, one send raised, the other two
\* members have the frame and the sender waits for its next unit
SendFailureIsolatedWitness ==
    \E c \in Conns :
        /\ pc[c] = "receiving"
        /\ Cardinality(bc[c].snap) = 3
        /\ Cardinality(bc[c].failed) = 1
        /\ \A w \in bc[c].snap \ bc[c].failed : HasFrame(w, bc[c].mid)

\* C5: once the handler of a connection has ended, the connection is in no
\* room's live set.
LeaveOnEveryExit ==
    \A c \in Conns : Ended(c) => ~InRegistry(c)

\* C6: leaving twice equals leaving once, and leaving a room the connection
\* is not in (or a room the registry does not hold) changes nothing.
LeaveIdempotent ==
    \A r \in ChatIds : \A c \in Conns :
        /\ Disconnect(Disconnect(rooms, r, c), r, c) = Disconnect(rooms, r, c)
        /\ c \notin Live(rooms, r) => Disconnect(rooms, r, c) = rooms

\* a connection was removed by a failed send and then left again from its own
\* handler, while another connection is still in that room
LeaveIdempotentWitness ==
    \E c, d \in Conns :
        /\ c # d /\ c \in bc[d].failed
        /\ pc[c] = "returned"
        /\ d \in Live(rooms, connChat[c])

\* C7: after a unit whose commit failed the handler is back in its receive
\* loop, still a member of its room, and broadcasts nothing for that unit.
CommitFailureKeepsLoop ==
    \A c \in Conns : lastUnit[c] = "commit_failed" =>
        /\ pc[c] = "receiving"
        /\ c \in Live(rooms, connChat[c])

\* C8: the messages of one connection are stored in receipt order, and a
\* receiver that has two of their frames has them in receipt order.
ReceiptOrderKept ==
    \A c \in Conns :
        /\ \A i, j \in 1..Len(recvLog[c]) :
              (i < j /\ recvLog[c][i] # 0 /\ recvLog[c][j] # 0) =>
                  recvLog[c][i] < recvLog[c][j]
        /\ \A i \in 1..Len(recvLog[c]) :
              recvLog[c][i] # 0 =>
                  /\ recvLog[c][i] \in 1..Len(messages)
                  /\ messages[recvLog[c][i]].id = recvLog[c][i]
        /\ \A w \in Conns : \A i, j \in 1..Len(inbox[w]) :
              (/\ \E k \in 1..Len(recvLog[c]) : recvLog[c][k] = inbox[w][i].mid
               /\ \E k \in 1..Len(recvLog[c]) : recvLog[c][k] = inbox[w][j].mid
               /\ Pos(recvLog[c], inbox[w][i].mid) < Pos(recvLog[c], inbox[w][j].mid))
              => i < j

\* one connection had two units stored and another connection has both frames
ReceiptOrderKeptWitness ==
    \E c, w \in Conns :
        /\ w # c /\ Len(recvLog[c]) = 2
        /\ recvLog[c][1] # 0 /\ recvLog[c][2] # 0
        /\ HasFrame(w, recvLog[c][1]) /\ HasFrame(w, recvLog[c][2])

\* C9: every frame carries the author id, the author's display name, the
\* text and the serialized creation time of the stored message.
FrameCarriesAuthorName ==
    \A w \in Conns : \A i \in 1..Len(inbox[w]) :
        LET f == inbox[w][i].frame
            m == messages[inbox[w][i].mid]
        IN  /\ f.author_id = m.author_id
            /\ f.text = m.text
            /\ f.created_at = Str(m.created_at)
            /\ "author_name" \in DOMAIN f
            /\ f.author_name = UserTable[m.author_id].name

\* C10: every rejected admission ends with ws.close given the
\* policy-violation code, without the connection having joined a room.
RejectionClosesWithPolicyViolation ==
    \A c \in Conns : Rejected(c) =>
        /\ closeCode[c] = PolicyViolation
        /\ ~InRegistry(c)

\* C11: a unit without the text field stores no message, sends no frame and
\* ends the handler with the KeyError; an ended handler takes no further unit.
MalformedUnitEndsLoop ==
    [][\A c \in Conns :
         /\ (lastUnit'[c] = "malformed" /\ recvLog'[c] # recvLog[c]) =>
                /\ messages' = messages
                /\ inbox' = inbox
                /\ pc'[c] = "raised" /\ exc'[c] = "KeyError"
         /\ pc[c] = "raised" => (pc'[c] = "raised" /\ recvLog'[c] = recvLog[c])
      ]_vars

\* a handler stored one unit and then ended on a unit without text
MalformedUnitEndsLoopWitness ==
    \E c \in Conns :
        /\ lastUnit[c] = "malformed" /\ pc[c] = "raised"
        /\ Len(recvLog[c]) = 2 /\ recvLog[c][1] # 0 /\ recvLog[c][2] = 0

\* C13: only members of the live set taken when a broadcast started get its
\* frame and the loop stays inside that snapshot; a connection admitted
\* meanwhile is in the registry and a connection that left is out of it.
BroadcastUsesSnapshot ==
    /\ \A c, w \in Conns :
          (bc[c].mid # 0 /\ HasFrame(w, bc[c].mid)) => w \in bc[c].snap
    /\ \A c \in Conns : pc[c] = "broadcasting" => snapshot[c] \subseteq bc[c].snap
    /\ \A c \in Conns :
          (pc[c] \in {"receiving", "broadcasting"} /\ wsState[c] = "open") =>
              c \in Live(rooms, connChat[c])
    /\ \A c \in Conns : pc[c] = "returned" => ~InRegistry(c)

\* in the middle of a broadcast (one member served, one still to go) a
\* connection that was admitted after its start is live in the same room
BroadcastUsesSnapshotWitness ==
    \E c, w \in Conns :
        /\ pc[c] = "broadcasting"
        /\ Attempted(c) # {} /\ snapshot[c] # {}
        /\ w \in Live(rooms, connChat[c]) \ bc[c].snap
        /\ ~HasFrame(w, bc[c].mid)

RegistryBoundedByActiveRooms ==
    Cardinality(DOMAIN rooms) <= Cardinality({r \in DOMAIN rooms : rooms[r] # {}})

\* C14: a send that never completes does not keep the payload from the other
\* live members of the room.  A blocked handler never resumes, so a member
\* that lacks the frame when the handler blocks never gets it: the claim
\* holds exactly when every open member of the snapshot of a blocked
\* broadcast already has its frame.
StallDoesNotBlockDelivery ==
    \A c \in Conns : pc[c] = "blocked" =>
        \A w \in bc[c].snap : wsState[w] = "open" => HasFrame(w, bc[c].mid)

\* a chat of the sale itself: its seller is the seller of its product
SaleChat(k) == chats[k].seller_id = ProductTable[chats[k].product_id].seller_id

\* C12: after any interleaving of chat-start requests there is at most one
\* sale chat for a product and a buyer.
OneSaleChatPerProductAndBuyer ==
    \A i, j \in DOMAIN chats :
        (/\ SaleChat(i) /\ SaleChat(j)
         /\ chats[i].product_id = chats[j].product_id
         /\ chats[i].buyer_id = chats[j].buyer_id) => i = j

\* C15: no step of any writer of the store changes or removes a stored
\* message: the message table after a step begins with the table before it.
MessagesAppendOnly ==
    [][/\ Len(messages') >= Len(messages)
       /\ \A i \in 1..Len(messages) : messages'[i] = messages[i]
      ]_vars

\* product 1 has been deleted while the store holds a message of the
\* WebSocket loop, a payment confirmation and a delivery greeting, all of
\* chats about that product
MessagesAppendOnlyWitness ==
    /\ 1 \notin products
    /\ Len(orders) = 1
    /\ \A t \in {"hi", "PAGO CONFIRMADO", "Hola! Soy tu repartidor"} :
          \E i \in 1..Len(messages) :
              messages[i].text = t /\ chats[messages[i].chat_id].product_id = 1

\* C18: every chat has a buyer and a seller that are two different users.
ChatPartiesDistinct ==
    \A k \in DOMAIN chats : chats[k].buyer_id # chats[k].seller_id

\* C19: once an order has a delivery person, no step gives it another one
\* (a rejected request is a step that changes nothing in the store).
DeliveryPersonNeverReplaced ==
    [][\A o \in 1..Len(orders) :
          orders[o].delivery_person_id # 0 =>
              orders'[o].delivery_person_id = orders[o].delivery_person_id
      ]_vars
====
